---- MODULE Spec2Model ----
(***************************************************************************)
(* A model of the dandelifeon crate's optimisation engine (src/bees.rs):   *)
(* the Colony trait's bees() loop, the FlowerPatch operations it calls and *)
(* the const evaluation of Colony::MINIMUM_RADIUS; and of its simulation   *)
(* engine (src/simulation.rs): the bit-packed PetriDish, one step of the   *)
(* game, play(), score() and the random sampling of a board.               *)
(*                                                                         *)
(* Arrays are modelled as sequences, so the code's index k is k + 1 here;  *)
(* the loop variable i keeps the code's 0-based value.                     *)
(***************************************************************************)
EXTENDS Integers, Sequences, FiniteSets

(***************************************************************************)
(* Bounds of the model.                                                    *)
(***************************************************************************)
\* Flowers (candidate solutions) are 0..MaxFlower.
MaxFlower == 3
\* stopping_condition() is forced to return true once MaxCycles cycles ran.
MaxCycles == 3
\* Inputs of the MINIMUM_RADIUS evaluation: a(0) in 10..MaxPatchSize,
\* stlim in 1..MaxLimit.
MaxPatchSize == 40
MaxLimit == 5
\* The colonies run: BEST_RECRUITS (nrb) is any of 0..MaxBestRecruits.
MaxBestRecruits == 1
\* The boards played: a glider starts at any of 0..MaxShift columns right of
\* (5, 5).
MaxShift == 1
\* The boards sampled: the draw of random_range is any of 0..2 for the last
\* MaxFree + 1 cells of the sampling order, and a fixed stream for the rest.
MaxFree == 1
\* The boards accessed: at most MaxWrites calls of write() on a board.
MaxWrites == 1
\* The boards set: at most MaxSets calls of write() and the setters on a board.
MaxSets == 2

(***************************************************************************)
(* The Colony the engine is run on: the associated constants an            *)
(* implementor sets (bees.rs declares them without values).  nrb, the      *)
(* number of recruits of a best site, is chosen when the run starts, so    *)
(* that colonies whose best sites get no forager are covered as well.      *)
(***************************************************************************)
N_SCOUTS == 3
ELITE_SITES == 1
BEST_SITES == 2
ELITE_RECRUITS == 2
FLOWER_PATCH_SIZE == 20
STAGNATION_LIMIT == 1

Flower == 0 .. MaxFlower

\* Colony::evaluate for this colony: smaller is better, and distinct flowers
\* may tie.
evaluate(solution) == (solution + 1) \div 2

\* Colony::explore has no random source among its parameters and is left to
\* the implementor: any flower may come back, whatever the arguments.
explore(origin, best, radius) == Flower

(***************************************************************************)
(* usize arithmetic.  The radii of the model stay below 2^32, so the upper *)
(* saturation point of saturating_mul is never met; the lower one of       *)
(* saturating_sub is modelled.                                             *)
(***************************************************************************)
saturating_sub(a, b) == IF b > a THEN 0 ELSE a - b
saturating_mul(a, b) == a * b
saturating_add(a, b) == a + b

\* A slip in the shrink: a fifth of the size instead of twice its tenth.
ConstShrink_Fifth(size) == size - (size \div 5)

\* One round of the const block of MINIMUM_RADIUS (plain usize arithmetic).
ConstShrink(size) == size - ((size \div 10) * 2)

RECURSIVE ConstShrinkTimes(_, _)
ConstShrinkTimes(size, n) ==
    IF n = 0 THEN size ELSE ConstShrinkTimes(ConstShrink(size), n - 1)

MINIMUM_RADIUS == ConstShrinkTimes(FLOWER_PATCH_SIZE, STAGNATION_LIMIT)

VARIABLES
    nrb,             \* Colony::BEST_RECRUITS of the colony that is run
    flower_patches,  \* bees(): the population, a sequence of FlowerPatch
    current_best,    \* bees(): the tracked global best Scout
    pc,              \* position in bees()
    i,               \* the for loops' index (0-based, as in the code)
    explored,        \* local_search(): iterations of its for loop done
    cycles,          \* times stopping_condition() returned false
    seen_min,        \* history: least fitness any incumbent ever had
    replaced,        \* history: indices replaced in the current cycle
    entry_scout,     \* history: the incumbent when local_search() was entered
    promotions,      \* history: promote() calls of the current local_search()
    last_assign,     \* history: the place that last assigned current_best
    checks,          \* history: calls of stopping_condition() so far
    explore_called,  \* history: explore() has been called
    patch_size,      \* MINIMUM_RADIUS: FLOWER_PATCH_SIZE of the evaluation
    limit,           \* MINIMUM_RADIUS: STAGNATION_LIMIT of the evaluation
    size,            \* MINIMUM_RADIUS: the local `size`
    ci,              \* MINIMUM_RADIUS: the local `i`
    dish,            \* play(): *self; sample(): temp
    ppc,             \* position in play() or sample()
    end,             \* play(): the Status of the last step, as u8
    iters,           \* play(): the local `iters`
    score,           \* play(): the value it returns
    given,           \* history: the board the last step was given
    start,           \* history: the board play() was called on
    sx,              \* sample(): the loop variable x
    sy,              \* sample(): the loop variable y
    core_blockers,   \* sample(): the local `core_blockers`
    op,              \* the accessor called last on the board
    ax,              \* its argument x (None for Option::None)
    ay,              \* its argument y (None for Option::None)
    aval,            \* write(): its argument value
    got,             \* the value the last read returned
    writes           \* write() calls made so far

beesVars == <<nrb, flower_patches, current_best, pc, i, explored, cycles,
              seen_min, replaced, entry_scout, promotions, last_assign,
              checks, explore_called>>
vars == <<nrb, flower_patches, current_best, pc, i, explored, cycles,
          seen_min, replaced, entry_scout, promotions, last_assign,
          checks, explore_called,
          patch_size, limit, size, ci,
          dish, ppc, end, iters, score, given, start, sx, sy, core_blockers,
          op, ax, ay, aval, got, writes>>
constVars == <<patch_size, limit, size, ci>>
accessVars == <<op, ax, ay, aval, got, writes>>
dishVars == <<dish, ppc, end, iters, score, given, start, sx, sy, core_blockers,
              accessVars>>

BEST_RECRUITS == nrb

(***************************************************************************)
(* Scout and FlowerPatch.                                                  *)
(***************************************************************************)
\* Scout::with_solution: the fitness is evaluated at construction.
ScoutWithSolution(solution) ==
    [fitness |-> evaluate(solution), solution |-> solution]

\* FlowerPatch::with_solution.  idle is a history field, not a field of the
\* struct: the cycles since the patch was created or last improved.
PatchWithSolution(solution) ==
    [scout |-> ScoutWithSolution(solution),
     foragers |-> 0,
     neighbourhood |-> FLOWER_PATCH_SIZE,
     stagnation |-> TRUE,
     stagnation_counter |-> 0,
     idle |-> 0]

\* FlowerPatch::new: rng.random() may draw any flower.
NewPatches == {PatchWithSolution(s) : s \in Flower}

\* A slip in promote(): only the flower is taken over, the recorded fitness
\* stays that of the old incumbent.
promote_SolutionOnly(patch, new_scout) ==
    [patch EXCEPT !.scout.solution = new_scout.solution, !.stagnation = FALSE]

\* FlowerPatch::promote.
promote(patch, new_scout) ==
    [patch EXCEPT !.scout = new_scout, !.stagnation = FALSE]

\* A slip in the test: <= for <, so that a tie promotes.
Improves_OrTies(new_scout, patch) ==
    new_scout.fitness <= patch.scout.fitness

\* local_search(): the test that guards promote().
Improves(new_scout, patch) == new_scout.fitness < patch.scout.fitness

\* The body of local_search()'s for loop, for the flower explore() returned.
SearchOnce(patch, new_solution) ==
    LET new_scout == ScoutWithSolution(new_solution)
    IN  IF Improves(new_scout, patch)
        THEN promote(patch, new_scout)
        ELSE patch

\* A slip in shrinking(): the stagnation flag is not consulted.
shrinking_always(patch) ==
    [patch EXCEPT !.neighbourhood =
        saturating_sub(patch.neighbourhood,
                       saturating_mul(patch.neighbourhood \div 10, 2))]

\* FlowerPatch::shrinking.
shrinking(patch) ==
    IF patch.stagnation
    THEN [patch EXCEPT !.neighbourhood =
            saturating_sub(patch.neighbourhood,
                           saturating_mul(patch.neighbourhood \div 10, 2))]
    ELSE patch

(***************************************************************************)
(* slice::sort_by_key on the fitness: a stable sort.                       *)
(***************************************************************************)
RECURSIVE InsertByKey(_, _)
InsertByKey(patch, sorted) ==
    IF sorted = <<>> THEN <<patch>>
    ELSE IF patch.scout.fitness < Head(sorted).scout.fitness
         THEN <<patch>> \o sorted
         ELSE <<Head(sorted)>> \o InsertByKey(patch, Tail(sorted))

RECURSIVE SortPrefix(_, _)
SortPrefix(patches, n) ==
    IF n = 0 THEN <<>>
    ELSE InsertByKey(patches[n], SortPrefix(patches, n - 1))

sort_by_key(patches) == SortPrefix(patches, Len(patches))

\* A slip in waggle_dance(): the second loop runs over 0..BEST_SITES and
\* overwrites the elite sites' recruits.
waggle_dance_overlapping(patches) ==
    [k \in DOMAIN patches |->
        IF k - 1 < BEST_SITES
        THEN [patches[k] EXCEPT !.foragers = BEST_RECRUITS]
        ELSE patches[k]]

\* Colony::waggle_dance.
waggle_dance(patches) ==
    [k \in DOMAIN patches |->
        IF k - 1 < ELITE_SITES
        THEN [patches[k] EXCEPT !.foragers = ELITE_RECRUITS]
        ELSE IF k - 1 < BEST_SITES
             THEN [patches[k] EXCEPT !.foragers = BEST_RECRUITS]
             ELSE patches[k]]

Min(a, b) == IF a < b THEN a ELSE b

RECURSIVE MinFitness(_, _)
MinFitness(patches, n) ==
    IF n = 1 THEN patches[1].scout.fitness
    ELSE Min(patches[n].scout.fitness, MinFitness(patches, n - 1))

(***************************************************************************)
(* PetriDish: 25 rows, each a u64 of which a cell takes 2 bits.  A u64 is  *)
(* modelled as its 32 base-4 digits, digit x being bits 2x and 2x + 1, so  *)
(* that `(word >> (2 * x)) & 0b11` is digit x and `v << (2 * x)`, for a    *)
(* v below 4, is the word whose only digit that may differ from 0 is x.    *)
(***************************************************************************)
DEAD == 0
LIVING == 1
BLOCKED == 2
DANDELIFEON == 3

Continue == 0
NormalEnd == 1
AbrubtEnd == 2

Side == 25
Centre == 12
Digits == 0 .. 31
Rows == 0 .. Side - 1

\* Option<u8>::None, as u8::checked_sub returns it; Some(v) is v itself.
None == -1
checked_sub(a, b) == IF a < b THEN None ELSE a - b

\* | and ^ on one base-4 digit.
Or2(a, b) ==
    2 * (IF (a \div 2) + (b \div 2) > 0 THEN 1 ELSE 0)
      + (IF (a % 2) + (b % 2) > 0 THEN 1 ELSE 0)
Xor2(a, b) ==
    2 * (((a \div 2) + (b \div 2)) % 2) + (((a % 2) + (b % 2)) % 2)

\* whole | ((value as u64) << (2 * x)) and whole ^ ((value as u64) << (2 * x)).
OrShifted(whole, value, x) == [whole EXCEPT ![x] = Or2(whole[x], value)]
XorShifted(whole, value, x) == [whole EXCEPT ![x] = Xor2(whole[x], value)]

\* PetriDish::new_with([0; 25]).
ZeroDish == [y \in Rows |-> [d \in Digits |-> 0]]

\* PetriDish::read.
read(self, x, y) ==
    IF x \in 0 .. 24 /\ y \in 0 .. 24 THEN self[y][x] ELSE 0

\* A slip in the decrement: 0 - 1 wraps to the opposite edge.
read_maybe_x_Wrapping(self, x, y) ==
    IF y \in 0 .. 24
    THEN IF x = None THEN self[y][24] ELSE IF x \in 0 .. 24 THEN self[y][x] ELSE 0
    ELSE 0

\* PetriDish::read_maybe_x, read_maybe_y and read_maybe_x_y.
read_maybe_x(self, x, y) ==
    IF x # None /\ x \in 0 .. 24 /\ y \in 0 .. 24 THEN self[y][x] ELSE 0
read_maybe_y(self, x, y) ==
    IF y # None /\ x \in 0 .. 24 /\ y \in 0 .. 24 THEN self[y][x] ELSE 0
read_maybe_x_y(self, x, y) ==
    IF x # None /\ y # None /\ x \in 0 .. 24 /\ y \in 0 .. 24
    THEN self[y][x] ELSE 0

\* PetriDish::write_assume_clean_slate.
write_assume_clean_slate(self, x, y, value) ==
    [self EXCEPT ![y] = OrShifted(self[y], value, x)]

\* A slip in the index: the row is taken at x, so the cell cleared is (x, x).
set_dead_RowAtX(self, x, y) ==
    [self EXCEPT ![x] = XorShifted(self[x], read(self, x, y), x)]

\* PetriDish::set_dead.
set_dead(self, x, y) ==
    [self EXCEPT ![y] = XorShifted(self[y], read(self, x, y), x)]

\* A slip in write: the cell is not cleared first.
write_NoClear(self, x, y, value) ==
    [self EXCEPT ![y] = OrShifted(self[y], value, x)]

\* PetriDish::write, set_living and set_blocked.
write(self, x, y, value) ==
    LET cleared == set_dead(self, x, y)
    IN  [cleared EXCEPT ![y] = OrShifted(cleared[y], value, x)]
set_living(self, x, y) ==
    LET cleared == set_dead(self, x, y)
    IN  [cleared EXCEPT ![y] = OrShifted(cleared[y], LIVING, x)]
set_blocked(self, x, y) ==
    LET cleared == set_dead(self, x, y)
    IN  [cleared EXCEPT ![y] = OrShifted(cleared[y], BLOCKED, x)]

\* PetriDish::set_dandelifeon.
set_dandelifeon(self) ==
    [self EXCEPT ![12] = OrShifted(self[12], DANDELIFEON, 12)]

\* PetriDish::new.
NewDish == set_dandelifeon(ZeroDish)

\* The set_living or set_blocked calls of a constant's initialiser, one
\* after the other.
RECURSIVE SetAll(_, _, _)
SetAll(self, coords, value) ==
    IF coords = <<>> THEN self
    ELSE SetAll(IF value = LIVING
                THEN set_living(self, Head(coords)[1], Head(coords)[2])
                ELSE set_blocked(self, Head(coords)[1], Head(coords)[2]),
                Tail(coords), value)

\* A slip in the constant: the cell (12, 14) is not blocked.
OPTIMAL_100_ROUND_SixBlocked ==
    SetAll(SetAll(NewDish,
                  <<<<7, 14>>, <<17, 14>>, <<9, 19>>, <<15, 19>>,
                    <<17, 20>>, <<17, 23>>>>, BLOCKED),
           <<<<15, 20>>, <<12, 21>>, <<15, 21>>, <<11, 22>>, <<12, 22>>,
             <<13, 22>>>>, LIVING)

\* PetriDish::OPTIMAL_100_ROUND.
OPTIMAL_100_ROUND ==
    SetAll(SetAll(NewDish,
                  <<<<7, 14>>, <<12, 14>>, <<17, 14>>, <<9, 19>>, <<15, 19>>,
                    <<17, 20>>, <<17, 23>>>>, BLOCKED),
           <<<<15, 20>>, <<12, 21>>, <<15, 21>>, <<11, 22>>, <<12, 22>>,
             <<13, 22>>>>, LIVING)

B2U(b) == IF b THEN 1 ELSE 0

\* A slip in the rule: a Dead cell is born with 3 Living neighbours or more.
reduce_local_asm_CrowdedBirth(center, neighbors) ==
    LET count_neighbors ==
            Cardinality({k \in 1 .. 8 : neighbors[k] = LIVING})
        next_alive ==
            \/ center = LIVING /\ count_neighbors \in {2, 3}
            \/ center = DEAD /\ count_neighbors >= 3
    IN  Or2(2 * B2U(center \in {DANDELIFEON, BLOCKED}),
            B2U(next_alive \/ center = DANDELIFEON))

\* A slip in the rule: a Dead cell is born with 2 Living neighbours too.
reduce_local_asm_BornOnTwo(center, neighbors) ==
    LET count_neighbors ==
            Cardinality({k \in 1 .. 8 : neighbors[k] = LIVING})
        next_alive ==
            center \in {LIVING, DEAD} /\ count_neighbors \in {2, 3}
    IN  Or2(2 * B2U(center \in {DANDELIFEON, BLOCKED}),
            B2U(next_alive \/ center = DANDELIFEON))

\* A slip in the count: every neighbour that is not Dead counts.
reduce_local_asm_CountsOccupied(center, neighbors) ==
    LET count_neighbors ==
            Cardinality({k \in 1 .. 8 : neighbors[k] # DEAD})
        next_alive ==
            \/ center = LIVING /\ count_neighbors \in {2, 3}
            \/ center = DEAD /\ count_neighbors = 3
    IN  Or2(2 * B2U(center \in {DANDELIFEON, BLOCKED}),
            B2U(next_alive \/ center = DANDELIFEON))

\* PetriDish::reduce_local_asm.
reduce_local_asm(center, neighbors) ==
    LET count_neighbors ==
            B2U(neighbors[1] = LIVING) + B2U(neighbors[2] = LIVING)
          + B2U(neighbors[3] = LIVING) + B2U(neighbors[4] = LIVING)
          + B2U(neighbors[5] = LIVING) + B2U(neighbors[6] = LIVING)
          + B2U(neighbors[7] = LIVING) + B2U(neighbors[8] = LIVING)
        center_alive == center = LIVING
        center_dead == center = DEAD
        dandelifeon == center = DANDELIFEON
        blocked == center = BLOCKED
        three_living_neighbors == count_neighbors = 3
        two_living_neighbors == count_neighbors = 2
        next_alive ==
            \/ center_alive /\ (three_living_neighbors \/ two_living_neighbors)
            \/ center_dead /\ three_living_neighbors
        blocked_or_dandelifeon == dandelifeon \/ blocked
        alive_or_dandelifeon == next_alive \/ dandelifeon
    IN  Or2(2 * B2U(blocked_or_dandelifeon), B2U(alive_or_dandelifeon))

\* The eight reads around (x, y), in the order reduce_cells and score make
\* them.
NeighborReads(self, x, y) ==
    LET x_sub_one == checked_sub(x, 1)
        x_add_one == x + 1
        y_sub_one == checked_sub(y, 1)
        y_add_one == y + 1
    IN  <<read(self, x_add_one, y),
          read_maybe_x(self, x_sub_one, y),
          read_maybe_y(self, x, y_sub_one),
          read_maybe_y(self, x_add_one, y_sub_one),
          read_maybe_x_y(self, x_sub_one, y_sub_one),
          read(self, x, y_add_one),
          read(self, x_add_one, y_add_one),
          read_maybe_x(self, x_sub_one, y_add_one)>>

\* reduce_cells: `dandelifeon_neighbors` and the test on it.
dandelifeon_neighbors(self) == NeighborReads(self, 12, 12)
AnyLiving(cells) == \E k \in DOMAIN cells : cells[k] = LIVING

\* A slip in the test: the block is one cell too wide on every side.
InHazardBlock_Wide(x, y) == x \in 10 .. 14 /\ y \in 10 .. 14

\* reduce_cells: the test that sets game_over.
InHazardBlock(x, y) == x \in 11 .. 13 /\ y \in 11 .. 13

\* reduce_cells: `new_cell` in the iteration of the loops for (x, y).
new_cell(self, x, y) ==
    reduce_local_asm(read(self, x, y), NeighborReads(self, x, y))

\* reduce_cells: `next_state` once both while loops are over.  Every (x, y)
\* with x and y below 25 is visited once and write_assume_clean_slate ORs
\* its new_cell into digit x of row y of PetriDish::new(); no iteration
\* reads what another one wrote, so the result is given digit by digit.
LoopsNextState(self) ==
    [y \in Rows |->
        [x \in Digits |->
            IF x < 25 THEN Or2(NewDish[y][x], new_cell(self, x, y))
            ELSE NewDish[y][x]]]

\* A slip in the test: the cell of the given board is tested, not new_cell.
LoopsGameOver_GivenCell(self) ==
    IF \E x \in 0 .. 24, y \in 0 .. 24 :
           InHazardBlock(x, y) /\ read(self, x, y) = LIVING
    THEN NormalEnd ELSE Continue

\* reduce_cells: `game_over` once both while loops are over: it starts as
\* Continue and an iteration can only set it to NormalEnd.
LoopsGameOver(self) ==
    IF \E x \in 0 .. 24, y \in 0 .. 24 :
           InHazardBlock(x, y) /\ new_cell(self, x, y) = LIVING
    THEN NormalEnd ELSE Continue

\* A slip in the early return: the status is right but the board is the
\* recomputed one.
reduce_cells_Recomputed(self) ==
    [next_state |-> LoopsNextState(self),
     game_over |-> IF AnyLiving(dandelifeon_neighbors(self))
                   THEN AbrubtEnd ELSE LoopsGameOver(self)]

\* PetriDish::reduce_cells.
reduce_cells(self) ==
    IF AnyLiving(dandelifeon_neighbors(self))
    THEN [next_state |-> self, game_over |-> AbrubtEnd]
    ELSE [next_state |-> LoopsNextState(self),
          game_over |-> LoopsGameOver(self)]

\* PetriDish::score; mana is a u16.
RECURSIVE Fold(_, _, _, _)
Fold(cells, k, mana, age) ==
    IF k > Len(cells) THEN mana
    ELSE Fold(cells, k + 1,
              IF cells[k] = LIVING THEN (mana + age * 60) % 65536 ELSE mana,
              age)

PlayScore(self, age) == Fold(dandelifeon_neighbors(self), 1, 0, age)

\* PetriDish::count_living_and_blocked: (living, blocked).
count_living_and_blocked(self) ==
    <<Cardinality({c \in (0 .. 24) \X (0 .. 24) :
                       read(self, c[1], c[2]) = LIVING}),
      Cardinality({c \in (0 .. 24) \X (0 .. 24) :
                       read(self, c[1], c[2]) = BLOCKED})>>

\* A slip in the age: the cap of 100 is left out.
Age_Uncapped(n, status) == n - (status - 1)

\* A slip in the age: the step that ended abruptly counts.
Age_NoOffset(n, status) == Min(n, 100)

\* A slip in the cap: the iterations are never used up.
IterationsUsedUp_Never(n) == FALSE

\* play(): `if iters > 101`, the cap on the iterations.
IterationsUsedUp(n) == n > 101

\* play(): `(iters - (end as u8 - 1)).min(100)`.
Age(n, status) == Min(n - (status - 1), 100)

\* No accessor has been called.
AccessIdle ==
    /\ op = "none"
    /\ ax = 0
    /\ ay = 0
    /\ aval = 0
    /\ got = 0
    /\ writes = 0

\* The simulation is not running.
DishIdle ==
    /\ AccessIdle
    /\ dish = <<>>
    /\ ppc = "idle"
    /\ end = Continue
    /\ iters = 0
    /\ score = 0
    /\ given = <<>>
    /\ start = <<>>
    /\ sx = 0
    /\ sy = 0
    /\ core_blockers = 0

(***************************************************************************)
(* bees().                                                                 *)
(***************************************************************************)
\* The array::from_fn, the first sort and `current_best = flower_patches[0]`.
BeesInit ==
    /\ nrb \in 0 .. MaxBestRecruits
    /\ flower_patches \in
         {sort_by_key(p) : p \in [1 .. N_SCOUTS -> NewPatches]}
    /\ current_best = flower_patches[1].scout
    /\ pc = "loop"
    /\ i = 0
    /\ explored = 0
    /\ cycles = 0
    /\ seen_min = MinFitness(flower_patches, N_SCOUTS)
    /\ replaced = {}
    /\ entry_scout = current_best
    /\ promotions = 0
    /\ last_assign = "init"
    /\ checks = 0
    /\ explore_called = FALSE

ConstIdle ==
    /\ patch_size = FLOWER_PATCH_SIZE
    /\ limit = STAGNATION_LIMIT
    /\ size = MINIMUM_RADIUS
    /\ ci = STAGNATION_LIMIT

\* A slip in the loop: the condition is also checked, and obeyed, between
\* the recruitment and the first local search of a cycle.
Stop_MidCycle ==
    /\ pc = "loop" \/ (pc = "local_search" /\ i = 0)
    /\ pc' = "done"
    /\ checks' = checks + 1
    /\ UNCHANGED <<nrb, flower_patches, current_best, i, explored, cycles,
                   seen_min, replaced, entry_scout, promotions, last_assign,
                   explore_called>>
    /\ UNCHANGED <<nrb, patch_size, limit, size, ci>>
    /\ UNCHANGED dishVars

\* stopping_condition() returns true: bees() returns current_best.
Stop ==
    /\ pc = "loop"
    /\ pc' = "done"
    /\ UNCHANGED <<nrb, flower_patches, current_best, i, explored, cycles,
                   seen_min, replaced, entry_scout, promotions, last_assign>>
    /\ checks' = checks + 1
    /\ UNCHANGED explore_called
    /\ UNCHANGED <<nrb, patch_size, limit, size, ci>>
    /\ UNCHANGED dishVars

\* A slip in the update: the best of the population is taken without the
\* comparison.
BestAtHead_Unguarded(sorted, best) == sorted[1].scout

\* The update of current_best that opens a cycle, after the sort.
BestAtHead(sorted, best) ==
    IF sorted[1].scout.fitness < best.fitness THEN sorted[1].scout ELSE best

\* stopping_condition() returns false: the sort, the update of current_best
\* and the recruitment that open a cycle.
CycleHead ==
    /\ pc = "loop"
    /\ cycles < MaxCycles
    /\ LET sorted == sort_by_key(flower_patches)
           best == BestAtHead(sorted, current_best)
       IN  /\ current_best' = best
           /\ last_assign' = IF best # current_best THEN "head"
                             ELSE last_assign
           /\ flower_patches' = waggle_dance(sorted)
    /\ cycles' = cycles + 1
    /\ i' = 0
    /\ pc' = "local_search"
    /\ replaced' = {}
    /\ UNCHANGED <<explored, seen_min, entry_scout, promotions>>
    /\ checks' = checks + 1
    /\ UNCHANGED explore_called
    /\ UNCHANGED <<nrb, patch_size, limit, size, ci>>
    /\ UNCHANGED dishVars

\* local_search() is entered on flower_patches[i].
LocalSearchBegin ==
    /\ pc = "local_search"
    /\ flower_patches' =
         [flower_patches EXCEPT ![i + 1].stagnation = TRUE]
    /\ explored' = 0
    /\ entry_scout' = flower_patches[i + 1].scout
    /\ promotions' = 0
    /\ pc' = IF flower_patches[i + 1].foragers = 0
             THEN "abandonment" ELSE "explore"
    /\ UNCHANGED <<current_best, i, cycles, seen_min, replaced, last_assign>>
    /\ UNCHANGED <<checks, explore_called>>
    /\ UNCHANGED <<nrb, patch_size, limit, size, ci>>
    /\ UNCHANGED dishVars

\* One iteration of local_search()'s for loop.
Explore ==
    /\ pc = "explore"
    /\ explored < flower_patches[i + 1].foragers
    /\ \E new_solution \in explore(flower_patches[i + 1].scout.solution,
                                   current_best,
                                   flower_patches[i + 1].neighbourhood) :
         LET patch == flower_patches[i + 1]
             after == SearchOnce(patch, new_solution)
         IN  /\ flower_patches' = [flower_patches EXCEPT ![i + 1] = after]
             /\ promotions' =
                  IF Improves(ScoutWithSolution(new_solution), patch)
                  THEN promotions + 1 ELSE promotions
             /\ seen_min' = Min(seen_min, after.scout.fitness)
    /\ explored' = explored + 1
    /\ pc' = IF explored + 1 = flower_patches[i + 1].foragers
             THEN "abandonment" ELSE "explore"
    /\ UNCHANGED <<current_best, i, cycles, replaced, entry_scout,
                   last_assign>>
    /\ explore_called' = TRUE
    /\ UNCHANGED checks
    /\ UNCHANGED <<nrb, patch_size, limit, size, ci>>
    /\ UNCHANGED dishVars

\* A slip in the comparison: a tie overwrites the global best as well.
abandonment_TieOverwrites(patch, best, fresh) ==
    IF patch.stagnation
    THEN IF patch.stagnation_counter < STAGNATION_LIMIT
         THEN [patch |-> [patch EXCEPT !.stagnation_counter =
                            saturating_add(patch.stagnation_counter, 1)],
               best |-> best,
               abandoned |-> FALSE]
         ELSE [patch |-> fresh,
               best |-> IF patch.scout.fitness <= best.fitness
                        THEN patch.scout ELSE best,
               abandoned |-> TRUE]
    ELSE [patch |-> patch, best |-> best, abandoned |-> FALSE]

\* A slip in the limit: a stagnant neighbourhood is counted on and never
\* abandoned.
abandonment_NoLimit(patch, best, fresh) ==
    IF patch.stagnation
    THEN [patch |-> [patch EXCEPT !.stagnation_counter =
                       saturating_add(patch.stagnation_counter, 1)],
          best |-> best,
          abandoned |-> FALSE]
    ELSE [patch |-> patch, best |-> best, abandoned |-> FALSE]

\* FlowerPatch::abandonment on flower_patches[i]; fresh is what Self::new
\* draws when the patch is abandoned.
abandonment(patch, best, fresh) ==
    IF patch.stagnation
    THEN IF patch.stagnation_counter < STAGNATION_LIMIT
         THEN [patch |-> [patch EXCEPT !.stagnation_counter =
                            saturating_add(patch.stagnation_counter, 1)],
               best |-> best,
               abandoned |-> FALSE]
         ELSE [patch |-> fresh,
               best |-> IF patch.scout.fitness < best.fitness
                        THEN patch.scout ELSE best,
               abandoned |-> TRUE]
    ELSE [patch |-> patch, best |-> best, abandoned |-> FALSE]

\* The history field idle after abandonment(): 0 for a fresh patch and
\* after an improving cycle, one more after a cycle without improvement.
Idle(before, after, abandoned) ==
    IF abandoned \/ ~before.stagnation THEN [after EXCEPT !.idle = 0]
    ELSE [after EXCEPT !.idle = before.idle + 1]

Abandonment ==
    /\ pc = "abandonment"
    /\ \E fresh \in NewPatches :
         LET patch == flower_patches[i + 1]
             out == abandonment(patch, current_best, fresh)
         IN  /\ flower_patches' =
                  [flower_patches EXCEPT
                     ![i + 1] = Idle(patch, out.patch, out.abandoned)]
             /\ current_best' = out.best
             /\ last_assign' = IF out.best # current_best
                               THEN "abandonment" ELSE last_assign
             /\ replaced' = IF out.abandoned
                            THEN replaced \cup {i} ELSE replaced
             /\ seen_min' = Min(seen_min, out.patch.scout.fitness)
    /\ pc' = "shrinking"
    /\ UNCHANGED <<i, explored, cycles, entry_scout, promotions>>
    /\ UNCHANGED <<checks, explore_called>>
    /\ UNCHANGED <<nrb, patch_size, limit, size, ci>>
    /\ UNCHANGED dishVars

\* The indices of `for i in 0..Self::BEST_SITES`.
BestSitesRange == 0 .. BEST_SITES - 1

\* A slip in the second loop's range: it starts one site too late.
GlobalSearchRange_OffByOne == BEST_SITES + 1 .. N_SCOUTS - 1

\* The indices of `for i in Self::BEST_SITES..N_SCOUTS`.
GlobalSearchRange == BEST_SITES .. N_SCOUTS - 1

\* shrinking() on flower_patches[i], and the step of `for i in 0..BEST_SITES`;
\* when that loop ends the global search loop starts, if it has an index.
Shrinking ==
    /\ pc = "shrinking"
    /\ flower_patches' =
         [flower_patches EXCEPT ![i + 1] = shrinking(flower_patches[i + 1])]
    /\ IF i + 1 \in BestSitesRange
       THEN i' = i + 1 /\ pc' = "local_search"
       ELSE IF GlobalSearchRange # {}
            THEN /\ i' = CHOOSE m \in GlobalSearchRange :
                            \A n \in GlobalSearchRange : m <= n
                 /\ pc' = "global_search"
            ELSE i' = i + 1 /\ pc' = "loop"
    /\ UNCHANGED <<current_best, explored, cycles, seen_min, replaced,
                   entry_scout, promotions, last_assign>>
    /\ UNCHANGED <<checks, explore_called>>
    /\ UNCHANGED <<nrb, patch_size, limit, size, ci>>
    /\ UNCHANGED dishVars

\* One iteration of `for i in BEST_SITES..N_SCOUTS`.
GlobalSearch ==
    /\ pc = "global_search"
    /\ \E fresh \in NewPatches :
         /\ flower_patches' = [flower_patches EXCEPT ![i + 1] = fresh]
         /\ seen_min' = Min(seen_min, fresh.scout.fitness)
    /\ replaced' = replaced \cup {i}
    /\ i' = i + 1
    /\ pc' = IF i + 1 \in GlobalSearchRange THEN "global_search" ELSE "loop"
    /\ UNCHANGED <<current_best, explored, cycles, entry_scout, promotions,
                   last_assign>>
    /\ UNCHANGED <<checks, explore_called>>
    /\ UNCHANGED <<nrb, patch_size, limit, size, ci>>
    /\ UNCHANGED dishVars

Init == BeesInit /\ ConstIdle /\ DishIdle

Next ==
    \/ Stop
    \/ CycleHead
    \/ LocalSearchBegin
    \/ Explore
    \/ Abandonment
    \/ Shrinking
    \/ GlobalSearch

Spec == Init /\ [][Next]_vars

(***************************************************************************)
(* The const evaluation of MINIMUM_RADIUS, for any a(0) >= 10 and any       *)
(* positive stlim.                                                         *)
(***************************************************************************)
ConstInit ==
    /\ patch_size \in 10 .. MaxPatchSize
    /\ limit \in 1 .. MaxLimit
    /\ size = patch_size
    /\ ci = 0

BeesIdle ==
    /\ nrb = 0
    /\ flower_patches = [k \in 1 .. N_SCOUTS |-> PatchWithSolution(0)]
    /\ current_best = ScoutWithSolution(0)
    /\ pc = "const"
    /\ i = 0
    /\ explored = 0
    /\ cycles = 0
    /\ seen_min = 0
    /\ replaced = {}
    /\ entry_scout = current_best
    /\ promotions = 0
    /\ last_assign = "init"
    /\ checks = 0
    /\ explore_called = FALSE

\* One iteration of the while loop of MINIMUM_RADIUS.
ConstStep ==
    /\ ci < limit
    /\ size' = ConstShrink(size)
    /\ ci' = ci + 1
    /\ UNCHANGED <<patch_size, limit>>
    /\ UNCHANGED beesVars
    /\ UNCHANGED dishVars

MinRadiusInit == ConstInit /\ BeesIdle /\ DishIdle

MinRadiusNext == ConstStep

MinRadiusSpec == MinRadiusInit /\ [][MinRadiusNext]_vars

(***************************************************************************)
(* play(), from a family of boards: the empty board, OPTIMAL_100_ROUND,    *)
(* and small patterns of Living and Blocked cells placed by the setters    *)
(* next to the Core, on the faces and in the corners of the grid.          *)
(***************************************************************************)
\* The eight cells around the Core.
HazardCells ==
    {c \in (11 .. 13) \X (11 .. 13) : c # <<Centre, Centre>>}

\* A pattern moved by (dx, dy).
Shifted(coords, dx, dy) ==
    [k \in DOMAIN coords |-> <<coords[k][1] + dx, coords[k][2] + dy>>]

\* The eight cells around the Core, one after the other.
HazardSeq ==
    <<<<11, 11>>, <<12, 11>>, <<13, 11>>, <<11, 12>>,
      <<13, 12>>, <<11, 13>>, <<12, 13>>, <<13, 13>>>>

\* The cells OPTIMAL_100_ROUND blocks.
OptimalBlocked ==
    {<<7, 14>>, <<12, 14>>, <<17, 14>>, <<9, 19>>, <<15, 19>>, <<17, 20>>,
     <<17, 23>>}

Blinker == <<<<0, 0>>, <<0, 1>>, <<0, 2>>>>
Row == <<<<0, 0>>, <<1, 0>>, <<2, 0>>>>
Block == <<<<0, 0>>, <<1, 0>>, <<0, 1>>, <<1, 1>>>>
Glider == <<<<1, 0>>, <<2, 1>>, <<0, 2>>, <<1, 2>>, <<2, 2>>>>

\* Boards that end at once: Living cells next to the Core.
AbruptBoards ==
    {set_living(b, c[1], c[2]) : b \in {NewDish, OPTIMAL_100_ROUND},
                                 c \in HazardCells}
    \cup {SetAll(NewDish, SubSeq(HazardSeq, 1, n), LIVING) : n \in {2, 8}}
    \cup {set_living(SetAll(NewDish, Shifted(Glider, 20, 20), LIVING), 13, 12)}

\* OPTIMAL_100_ROUND with one cell changed by a setter.
NearOptimalBoards ==
    {set_dead(OPTIMAL_100_ROUND, c[1], c[2]) :
         c \in {<<7, 14>>, <<12, 14>>, <<9, 19>>, <<15, 19>>}}
    \cup {set_blocked(OPTIMAL_100_ROUND, 8, 18)}

\* Living cells in three corners and on two faces of the grid, and a Blocked
\* cell under the middle of a row of three.
EdgePattern ==
    Row \o Shifted(Blinker, 24, 0) \o Shifted(Row, 22, 24)
        \o Shifted(Block, 0, 23) \o Shifted(Row, 15, 3)
EdgeBoard(pattern) ==
    set_blocked(SetAll(NewDish, EdgePattern \o pattern, LIVING), 16, 4)

\* Blocked cells and no Living one: two of them and the Core around the Dead
\* cell (12, 11), one next to the Core, one in a corner.
BlockedOnly == <<<<11, 10>>, <<12, 10>>, <<13, 12>>, <<24, 24>>>>

\* Small patterns: a blinker that reaches the Core's neighbours in one step,
\* gliders that reach them later, a block that never does.
PatternBoards ==
    {SetAll(NewDish, Shifted(Blinker, 10, 11), LIVING),
     EdgeBoard(Shifted(Blinker, 10, 11)),
     SetAll(NewDish, Shifted(Block, 23, 23), LIVING),
     SetAll(NewDish, Shifted(Blinker, 9, 11), LIVING),
     SetAll(NewDish, BlockedOnly, BLOCKED)}
    \cup {EdgeBoard(Shifted(Glider, 5 + d, 5)) : d \in 0 .. MaxShift}

PlayBoards ==
    {NewDish, OPTIMAL_100_ROUND}
    \cup AbruptBoards \cup NearOptimalBoards \cup PatternBoards

\* The state play() is called in.
PlayInit ==
    /\ AccessIdle
    /\ dish \in PlayBoards
    /\ ppc = "play"
    /\ end = Continue
    /\ iters = 0
    /\ score = 0
    /\ given = dish
    /\ start = dish
    /\ sx = 0
    /\ sy = 0
    /\ core_blockers = 0

\* One iteration of the loop of play(); iters is a u8.
PlayStep ==
    /\ ppc = "play"
    /\ \E r \in {reduce_cells(dish)} :
        /\ given' = dish
        /\ dish' = r.next_state
        /\ end' = r.game_over
        /\ iters' = (iters + 1) % 256
        /\ IF r.game_over > 0
           THEN /\ score' = PlayScore(r.next_state, Age(iters', r.game_over))
                /\ ppc' = "done"
           ELSE IF IterationsUsedUp(iters')
                THEN score' = 0 /\ ppc' = "done"
                ELSE score' = score /\ ppc' = "play"
    /\ UNCHANGED <<start, sx, sy, core_blockers>>
    /\ UNCHANGED accessVars
    /\ UNCHANGED beesVars
    /\ UNCHANGED constVars

PlaySpecInit == PlayInit /\ BeesIdle /\ ConstIdle

PlayNext == PlayStep

PlaySpec == PlaySpecInit /\ [][PlayNext]_vars

(***************************************************************************)
(* reduce_cells() on the boards whose Living cells lie on the ring of 16   *)
(* cells at distance 2 from the Core, the only cells that decide what is   *)
(* born next to the Core in one step; and play() on the boards above.      *)
(* A ring configuration is a number below 2^16, bit k - 1 being the k-th   *)
(* cell of OuterRing.  One configuration of each class under the rotations *)
(* and reflections of the square is taken: the least number of the class.  *)
(***************************************************************************)
OuterRing ==
    <<<<10, 10>>, <<11, 10>>, <<12, 10>>, <<13, 10>>, <<14, 10>>, <<14, 11>>,
      <<14, 12>>, <<14, 13>>, <<14, 14>>, <<13, 14>>, <<12, 14>>, <<11, 14>>,
      <<10, 14>>, <<10, 13>>, <<10, 12>>, <<10, 11>>>>
Pow2 ==
    <<1, 2, 4, 8, 16, 32, 64, 128, 256, 512, 1024, 2048, 4096, 8192, 16384,
      32768>>
Bit(m, k) == (m \div Pow2[k]) % 2

\* A quarter turn moves cell k to cell k + 4, the reflection in the diagonal
\* through (10, 10) moves cell k to cell 16 - k (cells counted from 0).
Rev4 == <<0, 8, 4, 12, 2, 10, 6, 14, 1, 9, 5, 13, 3, 11, 7, 15>>
Rev(m) ==
    Rev4[(m % 16) + 1] * 4096 + Rev4[((m \div 16) % 16) + 1] * 256
    + Rev4[((m \div 256) % 16) + 1] * 16 + Rev4[(m \div 4096) + 1]
Rot(m, n) == ((m * Pow2[n + 1]) % 65536) + (m \div Pow2[17 - n])
Refl(m) == Rot(Rev(m), 1)
Canonical(m) ==
    /\ m <= Rot(m, 4) /\ m <= Rot(m, 8) /\ m <= Rot(m, 12)
    /\ \E f \in {Refl(m)} :
           m <= f /\ m <= Rot(f, 4) /\ m <= Rot(f, 8) /\ m <= Rot(f, 12)

RECURSIVE SetRing(_, _, _)
SetRing(self, k, m) ==
    IF k > 16 THEN self
    ELSE SetRing(IF Bit(m, k) = 1
                 THEN set_living(self, OuterRing[k][1], OuterRing[k][2])
                 ELSE self,
                 k + 1, m)

RingBoards == {SetRing(NewDish, 1, m) : m \in {n \in 0 .. 65535 : Canonical(n)}}

\* The state reduce_cells() is called in.
RingInit ==
    /\ AccessIdle
    /\ dish \in RingBoards
    /\ ppc = "step"
    /\ end = Continue
    /\ iters = 0
    /\ score = 0
    /\ given = dish
    /\ start = dish
    /\ sx = 0
    /\ sy = 0
    /\ core_blockers = 0

\* One call of reduce_cells().
StepOnce ==
    /\ ppc = "step"
    /\ \E r \in {reduce_cells(dish)} :
        /\ given' = dish
        /\ dish' = r.next_state
        /\ end' = r.game_over
    /\ ppc' = "stepped"
    /\ UNCHANGED <<iters, score, start, sx, sy, core_blockers>>
    /\ UNCHANGED accessVars
    /\ UNCHANGED beesVars
    /\ UNCHANGED constVars

ManaInit == (RingInit \/ PlayInit) /\ BeesIdle /\ ConstIdle

ManaNext == StepOnce \/ PlayStep

ManaSpec == ManaInit /\ [][ManaNext]_vars

(***************************************************************************)
(* <StandardUniform as Distribution<PetriDish>>::sample.  Each draw of     *)
(* random_bool is either value.  The draws of random_range are any of      *)
(* 0..2 for the cells of FreeCells and the stream (x + 1) mod 3 for the    *)
(* others, which puts Living and Blocked cells beside the Core's           *)
(* neighbours.                                                             *)
(***************************************************************************)
\* A slip in the pattern: only the four corners around the Core.
CoreNeighbor_Corners(x, y) == x \in {11, 13} /\ y \in {11, 13}

\* sample: the pattern `(11..14, 11 | 13) | (11 | 13, 11..14)`.
CoreNeighbor(x, y) ==
    \/ x \in 11 .. 13 /\ y \in {11, 13}
    \/ x \in {11, 13} /\ y \in 11 .. 13

\* A slip in the cap: a third cell can still be blocked.
CanBlock_Inclusive(blockers, draw) == blockers <= 2 /\ draw

\* sample: the arm `(..2, true)`.
CanBlock(blockers, draw) == blockers < 2 /\ draw

FreeCells == {c \in (0 .. 24) \X (0 .. 24) : c[1] = 24 /\ c[2] >= 24 - MaxFree}
RangeDraws(x, y) ==
    IF <<x, y>> \in FreeCells THEN 0 .. 2 ELSE {(x + 1) % 3}

\* sample: the state after `let mut core_blockers: u8 = 0;`.
SampleInit ==
    /\ AccessIdle
    /\ dish = NewDish
    /\ ppc = "sample"
    /\ core_blockers = 0
    /\ sx = 0
    /\ sy = 0
    /\ end = Continue
    /\ iters = 0
    /\ score = 0
    /\ given = <<>>
    /\ start = <<>>

\* A slip in the loops: the centre is not skipped.
SampleBody_NoSkip(temp, blockers, x, y, flag, value) ==
    IF CoreNeighbor(x, y)
    THEN IF CanBlock(blockers, flag)
         THEN [temp |-> set_blocked(temp, x, y),
               core_blockers |-> blockers + 1]
         ELSE [temp |-> set_dead(temp, x, y), core_blockers |-> blockers]
    ELSE [temp |-> IF value = LIVING THEN set_living(temp, x, y)
                   ELSE IF value = DEAD THEN set_dead(temp, x, y)
                   ELSE set_blocked(temp, x, y),
          core_blockers |-> blockers]

\* sample: the body of the inner loop for (sx, sy), as a board and a count.
SampleBody(temp, blockers, x, y, flag, value) ==
    IF x # 12 \/ y # 12
    THEN IF CoreNeighbor(x, y)
         THEN IF CanBlock(blockers, flag)
              THEN [temp |-> set_blocked(temp, x, y),
                    core_blockers |-> blockers + 1]
              ELSE [temp |-> set_dead(temp, x, y), core_blockers |-> blockers]
         ELSE [temp |-> IF value = LIVING THEN set_living(temp, x, y)
                        ELSE IF value = DEAD THEN set_dead(temp, x, y)
                        ELSE set_blocked(temp, x, y),
               core_blockers |-> blockers]
    ELSE [temp |-> temp, core_blockers |-> blockers]

\* One iteration of `for y in 0..25` inside `for x in 0..25`.
SampleCell ==
    /\ ppc = "sample"
    /\ \E flag \in BOOLEAN, value \in RangeDraws(sx, sy) :
         \E out \in {SampleBody(dish, core_blockers, sx, sy, flag, value)} :
            /\ dish' = out.temp
            /\ core_blockers' = out.core_blockers
    /\ IF sy < 24 THEN sx' = sx /\ sy' = sy + 1 /\ ppc' = "sample"
       ELSE IF sx < 24 THEN sx' = sx + 1 /\ sy' = 0 /\ ppc' = "sample"
       ELSE sx' = sx /\ sy' = sy /\ ppc' = "sampled"
    /\ UNCHANGED <<end, iters, score, given, start>>
    /\ UNCHANGED accessVars
    /\ UNCHANGED beesVars
    /\ UNCHANGED constVars

SampleSpecInit == SampleInit /\ BeesIdle /\ ConstIdle

SampleNext == SampleCell

SampleSpec == SampleSpecInit /\ [][SampleNext]_vars

(***************************************************************************)
(* Boards as the search makes and scores them: FlowerPatch::new draws a    *)
(* board with sample() and has it played; other boards are played as       *)
(* given.                                                                  *)
(***************************************************************************)
\* play() is called on the board sample() returned.
PlaySampled ==
    /\ ppc = "sampled"
    /\ ppc' = "play"
    /\ given' = dish
    /\ start' = dish
    /\ UNCHANGED <<dish, end, iters, score, sx, sy, core_blockers>>
    /\ UNCHANGED accessVars
    /\ UNCHANGED beesVars
    /\ UNCHANGED constVars

SamplePlayInit == (SampleInit \/ PlayInit) /\ BeesIdle /\ ConstIdle

SamplePlayNext == SampleCell \/ PlaySampled \/ PlayStep

SamplePlaySpec == SamplePlayInit /\ [][SamplePlayNext]_vars

(***************************************************************************)
(* The accessors of PetriDish called on a board: write(x, y, value)        *)
(* followed by read(x, y), and read and its maybe-coordinate variants at   *)
(* coordinates inside the grid, at 25 (what 24 + 1 gives) and at None      *)
(* (what 0.checked_sub(1) gives).                                          *)
(***************************************************************************)
\* A corner, and a Blocked and a Living cell of OPTIMAL_100_ROUND.
WriteCells == {<<24, 24>>, <<12, 14>>, <<12, 21>>}
CellCodes == 0 .. 3
ReadCoords == {0, 24, 25}
MaybeCoords == ReadCoords \cup {None}

AccessInit ==
    /\ dish \in {NewDish, OPTIMAL_100_ROUND}
    /\ ppc = "access"
    /\ end = Continue
    /\ iters = 0
    /\ score = 0
    /\ given = dish
    /\ start = <<>>
    /\ sx = 0
    /\ sy = 0
    /\ core_blockers = 0
    /\ AccessIdle

\* write(x, y, value) and then read(x, y).
WriteRead ==
    /\ ppc = "access"
    /\ writes < MaxWrites
    /\ \E c \in WriteCells, value \in CellCodes :
         /\ dish' = write(dish, c[1], c[2], value)
         /\ got' = read(dish', c[1], c[2])
         /\ ax' = c[1] /\ ay' = c[2] /\ aval' = value
    /\ given' = dish
    /\ op' = "write"
    /\ writes' = writes + 1
    /\ UNCHANGED <<ppc, end, iters, score, start, sx, sy, core_blockers>>
    /\ UNCHANGED beesVars
    /\ UNCHANGED constVars

\* The part of a read every variant shares.
ReadFrame(name, x, y) ==
    /\ ppc = "access"
    /\ op' = name /\ ax' = x /\ ay' = y
    /\ UNCHANGED <<dish, ppc, end, iters, score, given, start, sx, sy,
                   core_blockers>>
    /\ UNCHANGED <<aval, writes>>
    /\ UNCHANGED beesVars
    /\ UNCHANGED constVars

Read ==
    \E x \in ReadCoords, y \in ReadCoords :
        ReadFrame("read", x, y) /\ got' = read(dish, x, y)
ReadMaybeX ==
    \E x \in MaybeCoords, y \in ReadCoords :
        ReadFrame("read_maybe_x", x, y) /\ got' = read_maybe_x(dish, x, y)
ReadMaybeY ==
    \E x \in ReadCoords, y \in MaybeCoords :
        ReadFrame("read_maybe_y", x, y) /\ got' = read_maybe_y(dish, x, y)
ReadMaybeXY ==
    \E x \in MaybeCoords, y \in MaybeCoords :
        ReadFrame("read_maybe_x_y", x, y) /\ got' = read_maybe_x_y(dish, x, y)

AccessSpecInit == AccessInit /\ BeesIdle /\ ConstIdle

AccessNext == WriteRead \/ Read \/ ReadMaybeX \/ ReadMaybeY \/ ReadMaybeXY

AccessSpec == AccessSpecInit /\ [][AccessNext]_vars

(***************************************************************************)
(* The calls that change one cell of a board, write and the three setters, *)
(* made one after the other at coordinates of the grid.                    *)
(***************************************************************************)
\* The cells of WriteCells, and the cell after the Core in its row.
SetCells == WriteCells \cup {<<13, 12>>}

\* The setters, by name, and the state each one writes.
Setters == {"set_dead", "set_living", "set_blocked"}
SetterCode(name) ==
    IF name = "set_dead" THEN DEAD
    ELSE IF name = "set_living" THEN LIVING ELSE BLOCKED
SetterCall(name, self, x, y) ==
    IF name = "set_dead" THEN set_dead(self, x, y)
    ELSE IF name = "set_living" THEN set_living(self, x, y)
    ELSE set_blocked(self, x, y)

SetInit ==
    /\ dish \in {NewDish, OPTIMAL_100_ROUND}
    /\ ppc = "set"
    /\ end = Continue
    /\ iters = 0
    /\ score = 0
    /\ given = dish
    /\ start = <<>>
    /\ sx = 0
    /\ sy = 0
    /\ core_blockers = 0
    /\ AccessIdle

\* What a call leaves alone.
SetFrame ==
    /\ ppc = "set"
    /\ writes < MaxSets
    /\ given' = dish
    /\ writes' = writes + 1
    /\ UNCHANGED <<ppc, end, iters, score, start, sx, sy, core_blockers>>
    /\ UNCHANGED beesVars
    /\ UNCHANGED constVars

\* write(x, y, value), and then read(x, y).
WriteCell ==
    /\ SetFrame
    /\ \E c \in SetCells, value \in CellCodes :
         /\ dish' = write(dish, c[1], c[2], value)
         /\ got' = read(dish', c[1], c[2])
         /\ ax' = c[1] /\ ay' = c[2] /\ aval' = value
         /\ op' = "write"

\* set_dead(x, y), set_living(x, y) or set_blocked(x, y), and then read(x, y).
SetCell ==
    /\ SetFrame
    /\ \E c \in SetCells, name \in Setters :
         /\ dish' = SetterCall(name, dish, c[1], c[2])
         /\ got' = read(dish', c[1], c[2])
         /\ ax' = c[1] /\ ay' = c[2] /\ aval' = SetterCode(name)
         /\ op' = name

SetSpecInit == SetInit /\ BeesIdle /\ ConstIdle

SetNext == WriteCell \/ SetCell

SetSpec == SetSpecInit /\ [][SetNext]_vars

(***************************************************************************)
(* Properties of bees().                                                   *)
(***************************************************************************)
EndOfCycle == pc = "loop" /\ cycles > 0
AfterRecruitment == pc = "local_search" /\ i = 0
Indices == 0 .. N_SCOUTS - 1

\* C1: the scout bees() returns is the best candidate seen across the whole
\* run: its fitness is at most the fitness of every candidate that ever was
\* the incumbent of a neighbourhood, the last cycle's included.
C1_ReturnedIsBestSeen ==
    pc = "done" => current_best.fitness <= seen_min

\* C2: the fitness of current_best never increases from one step to the
\* next, and every assignment that changes current_best replaces it with a
\* scout of strictly lower fitness.
C2_BestNeverWorsens ==
    [][\/ current_best' = current_best
       \/ current_best'.fitness < current_best.fitness]_vars

\* C2's case: the cycle head has replaced current_best after the first cycle.
C2_Witness == last_assign = "head" /\ cycles >= 2

\* C3: at the end of the cycle in which a neighbourhood was replaced, by
\* abandonment or by global search, its radius is FLOWER_PATCH_SIZE and its
\* stagnation counter is 0.
C3_ReplacedIsReset ==
    EndOfCycle =>
        \A k \in replaced :
            /\ flower_patches[k + 1].neighbourhood = FLOWER_PATCH_SIZE
            /\ flower_patches[k + 1].stagnation_counter = 0

\* C4: every neighbourhood's radius is at least MINIMUM_RADIUS in every
\* reachable state, and so is every radius passed to explore().
C4_RadiusAtLeastMinimum ==
    /\ \A k \in Indices :
           flower_patches[k + 1].neighbourhood >= MINIMUM_RADIUS
    /\ pc = "explore" =>
           flower_patches[i + 1].neighbourhood >= MINIMUM_RADIUS

\* C5: with STAGNATION_LIMIT >= 1, at the end of a cycle no neighbourhood has
\* a stagnation counter equal to STAGNATION_LIMIT: it was replaced in the
\* cycle in which its counter reached the limit.
C5_NoneAtLimit ==
    (EndOfCycle /\ STAGNATION_LIMIT >= 1) =>
        \A k \in Indices :
            flower_patches[k + 1].stagnation_counter # STAGNATION_LIMIT

\* C6: the stagnation counter counts consecutive cycles without local
\* improvement: after a cycle in which local search promoted a candidate in
\* the neighbourhood it is 0, and otherwise it is the number of cycles since
\* the neighbourhood's last improvement or creation.
C6_CounterIsConsecutive ==
    /\ pc = "shrinking" =>
           (~flower_patches[i + 1].stagnation =>
                flower_patches[i + 1].stagnation_counter = 0)
    /\ EndOfCycle =>
           \A k \in Indices :
               flower_patches[k + 1].stagnation_counter
                   = flower_patches[k + 1].idle

TiersRecruited ==
    \A k \in Indices :
        /\ k < ELITE_SITES => flower_patches[k + 1].foragers = ELITE_RECRUITS
        /\ (ELITE_SITES <= k /\ k < BEST_SITES) =>
               flower_patches[k + 1].foragers = BEST_RECRUITS

\* C7 as stated: right after the recruitment step the first ELITE_SITES
\* neighbourhoods have ELITE_RECRUITS foragers, the next BEST_SITES -
\* ELITE_SITES have BEST_RECRUITS, and every one at index >= BEST_SITES has 0.
C7_OthersGetZero ==
    AfterRecruitment =>
        /\ TiersRecruited
        /\ \A k \in Indices :
               k >= BEST_SITES => flower_patches[k + 1].foragers = 0

\* C7 as amended: right after the recruitment step the two tiers have their
\* recruits, and a neighbourhood at index >= BEST_SITES has the count it had
\* before: 0 if it is fresh, ELITE_RECRUITS or BEST_RECRUITS if an earlier
\* cycle recruited for it.  At the end of the cycle the global search has
\* replaced it, and its count is 0.
C7_TiersRecruited ==
    /\ AfterRecruitment =>
           /\ TiersRecruited
           /\ \A k \in Indices :
                  k >= BEST_SITES =>
                      flower_patches[k + 1].foragers
                          \in {0, ELITE_RECRUITS, BEST_RECRUITS}
    /\ EndOfCycle =>
           \A k \in Indices :
               k >= BEST_SITES => flower_patches[k + 1].foragers = 0

\* C7's case: after a recruitment, a neighbourhood outside the best sites
\* still has the recruits of an elite site.
C7_Witness ==
    /\ AfterRecruitment
    /\ TiersRecruited
    /\ flower_patches[N_SCOUTS].foragers = ELITE_RECRUITS

Blank(patches) == [k \in DOMAIN patches |-> [patches[k] EXCEPT !.foragers = 0]]
Occurrences(patches, p) == Cardinality({k \in DOMAIN patches : patches[k] = p})
SamePatches(a, b) ==
    \A k \in DOMAIN a :
        Occurrences(Blank(a), Blank(a)[k]) = Occurrences(Blank(b), Blank(a)[k])

\* C9: shrinking() changes the radius r only when no improvement occurred
\* this cycle, and then to r - 2 * floor(r / 10); after an improvement the
\* radius is unchanged.  So the radius of a neighbourhood that is not
\* replaced never increases (the sort only reorders the neighbourhoods), and
\* no radius is 0.
C9_Shrinking ==
    [][/\ pc = "shrinking" =>
            \A k \in Indices :
                flower_patches'[k + 1].neighbourhood =
                    IF k = i /\ flower_patches[k + 1].stagnation
                    THEN flower_patches[k + 1].neighbourhood
                         - 2 * (flower_patches[k + 1].neighbourhood \div 10)
                    ELSE flower_patches[k + 1].neighbourhood
       /\ pc = "loop" => SamePatches(flower_patches, flower_patches')
       /\ pc \notin {"shrinking", "loop"} =>
            \A k \in Indices :
                k \notin replaced' \ replaced =>
                    flower_patches'[k + 1].neighbourhood
                        = flower_patches[k + 1].neighbourhood
       /\ \A k \in Indices : flower_patches'[k + 1].neighbourhood > 0]_vars

\* C9's case: the best sites' loop has ended; one neighbourhood kept its
\* radius through an improving cycle while another has been shrunk twice.
C9_Witness ==
    /\ pc = "global_search"
    /\ i = BEST_SITES
    /\ ~flower_patches[1].stagnation
    /\ flower_patches[1].neighbourhood = FLOWER_PATCH_SIZE
    /\ flower_patches[1].stagnation_counter = 0
    /\ flower_patches[2].neighbourhood
           = ConstShrinkTimes(FLOWER_PATCH_SIZE, 2)

\* C11: in every cycle every neighbourhood at index >= BEST_SITES is replaced
\* by a freshly sampled one, local search (and so explore()) runs only on
\* indices below BEST_SITES, and the population keeps N_SCOUTS members.
C11_GlobalSearch ==
    /\ Len(flower_patches) = N_SCOUTS
    /\ DOMAIN flower_patches = 1 .. N_SCOUTS
    /\ pc \in {"local_search", "explore", "abandonment", "shrinking"} =>
           i < BEST_SITES
    /\ EndOfCycle =>
           \A k \in Indices :
               k >= BEST_SITES =>
                   /\ k \in replaced
                   /\ flower_patches[k + 1] \in NewPatches

\* C11's case: a cycle has ended in which a neighbourhood that had been
\* recruited for in an earlier cycle was sorted out of the best sites and
\* replaced.
C11_Witness ==
    /\ EndOfCycle
    /\ cycles >= 2
    /\ replaced = {k \in Indices : k >= BEST_SITES}
    /\ \A k \in Indices : k < BEST_SITES => flower_patches[k + 1].idle > 0

\* C12: every Scout of a run has fitness = evaluate(solution): the
\* incumbents, the global best (the scout bees() returns) and the incumbent
\* local search started from.
C12_FitnessIsEvaluation ==
    /\ \A k \in Indices :
           flower_patches[k + 1].scout.fitness
               = evaluate(flower_patches[k + 1].scout.solution)
    /\ current_best.fitness = evaluate(current_best.solution)
    /\ entry_scout.fitness = evaluate(entry_scout.solution)

\* C12's case: bees() has returned a scout that local search promoted and
\* the cycle head then made the global best.
C12_Witness ==
    /\ pc = "done"
    /\ last_assign = "head"
    /\ current_best.fitness = 0

(***************************************************************************)
(* Properties of one step of the game, reduce_cells, seen after each       *)
(* iteration of play(): `given` is the board the step took, `dish` and     *)
(* `end` what it returned.                                                 *)
(***************************************************************************)
Stepped == ppc \in {"play", "done"} /\ iters > 0
InGrid(x, y) == x \in 0 .. 24 /\ y \in 0 .. 24
Offsets == {o \in (-1 .. 1) \X (-1 .. 1) : o # <<0, 0>>}
LivingHazard(b) == \E c \in HazardCells : b[c[2]][c[1]] = LIVING
LivingAround(b, x, y) ==
    Cardinality({o \in Offsets : /\ InGrid(x + o[1], y + o[2])
                                 /\ b[y + o[2]][x + o[1]] = LIVING})
Rule(b, x, y) ==
    IF b[y][x] = LIVING /\ LivingAround(b, x, y) \in {2, 3} THEN LIVING
    ELSE IF b[y][x] = DEAD /\ LivingAround(b, x, y) = 3 THEN LIVING
    ELSE IF b[y][x] = BLOCKED THEN BLOCKED
    ELSE IF b[y][x] = DANDELIFEON THEN DANDELIFEON
    ELSE DEAD

\* C13: if any of the 8 cells around the centre (12,12) is Living before a
\* step, reduce_cells returns AbruptEnd and a board equal to its input, row
\* for row and cell for cell.
C13_AbruptEndKeepsBoard ==
    Stepped /\ LivingHazard(given) => end = AbrubtEnd /\ dish = given

\* A step has ended abruptly on a board whose only Living cell next to the
\* Core would have died, and whose other Living cells would have moved.
C13_Witness ==
    /\ iters = 1
    /\ end = AbrubtEnd
    /\ given = set_living(OPTIMAL_100_ROUND, 11, 13)
    /\ dish[13][11] = LIVING
    /\ Rule(given, 11, 13) = DEAD

\* C14: for a board with no Living cell around the centre, every cell of the
\* 25x25 grid of the returned board is Living if it was Living with 2 or 3
\* Living cells among its 8 neighbours or Dead with exactly 3, Blocked if it
\* was Blocked, Core if it was Core, and Dead otherwise; neighbours outside
\* the grid and Blocked and Core neighbours do not count as Living.
C14_StepRule ==
    Stepped /\ ~LivingHazard(given) =>
        \A x \in 0 .. 24, y \in 0 .. 24 : dish[y][x] = Rule(given, x, y)

\* A row of three Living cells with a Blocked cell below its middle has
\* turned: the cell above the middle is born, the Blocked one stays Blocked;
\* a row in the corner (0,0) and a blinker on the face x = 24 have turned
\* with nothing born outside the grid.
C14_Witness ==
    /\ iters = 1
    /\ given = EdgeBoard(Shifted(Glider, 5, 5))
    /\ dish[2][16] = LIVING /\ dish[4][16] = BLOCKED /\ dish[3][15] = DEAD
    /\ dish[1][1] = LIVING /\ dish[0][0] = DEAD /\ dish[0][1] = LIVING
    /\ dish[1][23] = LIVING /\ dish[1][24] = LIVING /\ dish[0][24] = DEAD
    /\ dish[12][12] = DANDELIFEON

Played == ppc = "done"
LivingHazards(b) == {c \in HazardCells : b[c[2]][c[1]] = LIVING}

\* C16: when play() ends because step number k, counted from 1, returned
\* NormalEnd, it returns 60 * min(k, 100) * L, L being the number of Living
\* cells among the 8 cells around the centre of the board that step
\* returned; the value is positive.
C16_NormalEndScore ==
    Played /\ end = NormalEnd =>
        /\ score = 60 * Min(iters, 100) * Cardinality(LivingHazards(dish))
        /\ score > 0

\* A play has ended normally at step 102, past the cap of the age.
C16_Witness ==
    /\ Played /\ end = NormalEnd
    /\ iters = 102
    /\ Cardinality(LivingHazards(dish)) = 1
    /\ score = 6000

\* C17: play() returns 0 when the simulation ends with AbruptEnd and when
\* the iterations are used up with every status Continue, whatever the
\* board, boards with several Living cells around the centre included.
C17_ZeroOtherwise ==
    Played /\ end \in {AbrubtEnd, Continue} => score = 0

\* A play has ended abruptly on a board with 8 Living cells around the
\* centre.
C17_Witness ==
    /\ Played /\ end = AbrubtEnd
    /\ Cardinality(LivingHazards(dish)) = 8
    /\ score = 0

NoLiving(b) == \A x \in 0 .. 24, y \in 0 .. 24 : b[y][x] # LIVING

C26_PlayTerminates ==
    /\ [](/\ iters <= 102
          /\ (ppc = "play" => iters <= 101 /\ end = Continue)
          /\ (end # Continue => iters - (end - 1) >= 0))
    /\ [][iters' = iters + 1 /\ iters' <= 255]_vars

\* A play has used up its 102 steps, every one of them Continue.
C26_Witness ==
    /\ Played
    /\ iters = 102
    /\ end = Continue

\* C27: a step returns NormalEnd when no Living cell remains on the board
\* it returns, which ends the game.
C27_NormalEndWhenNoLivingRemains ==
    Stepped /\ NoLiving(dish) => end = NormalEnd

\* C28: within one play(), AbruptEnd can only be the status of the first
\* step: after a step that returned Continue no cell around the centre is
\* Living; so the age an AbruptEnd is scored with is 0.
C28_AbruptEndOnlyAtFirstStep ==
    /\ end = AbrubtEnd => iters = 1 /\ Age(iters, end) = 0
    /\ Stepped /\ end = Continue => ~LivingHazard(dish)

\* A blinker has turned next to the block around the Core: the step
\* returned Continue, and the play has gone on to a second step.
C28_Witness ==
    /\ Stepped
    /\ iters = 2
    /\ end = Continue
    /\ start = SetAll(NewDish, Shifted(Blinker, 9, 11), LIVING)
    /\ ~LivingHazard(dish)

\* C19: OPTIMAL_100_ROUND holds 7 Blocked and 6 Living cells; play() on it
\* ends with NormalEnd, at a step where the age is at its cap of 100, and
\* its score is a positive multiple of 6000.
C19_OptimalRound ==
    start = OPTIMAL_100_ROUND =>
        /\ count_living_and_blocked(start) = <<6, 7>>
        /\ Played => /\ end = NormalEnd
                     /\ iters >= 100
                     /\ score > 0
                     /\ score % 6000 = 0

\* The play of OPTIMAL_100_ROUND is over.
C19_Witness ==
    /\ start = OPTIMAL_100_ROUND
    /\ Played /\ end = NormalEnd
    /\ score = 36000

\* C18: the most mana of one game is 36000: the board one step returns for
\* a board with no Living cell around the centre has at most 6 Living cells
\* among the 8 cells around the centre, so play() returns at most 36000 and
\* the sum score() makes stays below 2^16.
C18_AtMostSixConsumed ==
    /\ ppc = "stepped" \/ Stepped =>
           (~LivingHazard(given) => Cardinality(LivingHazards(dish)) <= 6)
    /\ Played =>
           /\ score <= 36000
           /\ end # Continue =>
                  score = 60 * Age(iters, end) * Cardinality(LivingHazards(dish))

\* One step has made 6 of the 8 cells around the centre Living.
C18_Witness ==
    /\ ppc = "stepped"
    /\ ~LivingHazard(given)
    /\ Cardinality(LivingHazards(dish)) = 6
    /\ end = NormalEnd

(***************************************************************************)
(* Properties of sample().                                                 *)
(***************************************************************************)
Sampled == ppc = "sampled"
Order(c) == 25 * c[1] + c[2]
Visited(c) == Sampled \/ Order(c) < Order(<<sx, sy>>)
BlockedHazards(b) == {c \in HazardCells : b[c[2]][c[1]] = BLOCKED}

\* C20: whatever the random draws, a sampled board has at most 2 Blocked
\* cells among the 8 cells around the centre; once two are blocked, every
\* cell around the centre that the loops visit later is Dead; and the centre
\* is Core.
C20_AtMostTwoBlockers ==
    /\ Cardinality(BlockedHazards(dish)) <= 2
    /\ \A c \in HazardCells :
           /\ Visited(c)
           /\ Cardinality({b \in BlockedHazards(dish) : Order(b) < Order(c)}) >= 2
           => dish[c[2]][c[1]] = DEAD
    /\ dish[Centre][Centre] = DANDELIFEON

\* A board is sampled whose first two cells around the centre are Blocked,
\* beside a Living and a Blocked cell of the same row.
C20_Witness ==
    /\ Sampled
    /\ BlockedHazards(dish) = {<<11, 11>>, <<11, 12>>}
    /\ dish[12][9] = LIVING
    /\ dish[12][10] = BLOCKED
    /\ dish[24][24] = LIVING

\* The play is one of a board sample() returned.
OfSampled == ppc \in {"play", "done"} /\ <<sx, sy>> = <<24, 24>>

\* C23: the centre (12, 12) reads Core on a newly constructed board, on
\* every board sample() is building or has returned, and on the board every
\* step returns, whatever the number of steps taken.
C23_CentreIsCore ==
    ppc \in {"sample", "sampled", "play", "done"} =>
        read(dish, Centre, Centre) = DANDELIFEON

\* The 102nd step of a play has returned a board, with Living cells left
\* elsewhere on it.
C23_Witness ==
    /\ Played
    /\ iters = 102
    /\ ~NoLiving(dish)
    /\ dish[Centre][Centre] = DANDELIFEON

\* C29: sample() leaves no Living cell among the 8 cells around the centre:
\* each is Dead or Blocked; so play() on a sampled board never ends with
\* AbruptEnd.
C29_SampledNeverAbrupt ==
    /\ ppc \in {"sample", "sampled"} =>
           \A c \in HazardCells : dish[c[2]][c[1]] \in {DEAD, BLOCKED}
    /\ OfSampled => end # AbrubtEnd

\* The play of a sampled board with two Blocked cells around the centre,
\* and Living cells beside them, has ended normally.
C29_Witness ==
    /\ OfSampled
    /\ Played
    /\ end = NormalEnd
    /\ Cardinality(BlockedHazards(start)) = 2
    /\ start[11][15] = LIVING

(***************************************************************************)
(* Properties of the accessors.                                            *)
(***************************************************************************)
Reads == {"read", "read_maybe_x", "read_maybe_y", "read_maybe_x_y"}

\* C21: on every board, for every coordinate (x, y) of the grid and every
\* 2-bit state s, read(x, y) after write(x, y, s) returns s, whatever the
\* cell held before.
C21_WriteThenRead ==
    op = "write" => got = aval /\ dish[ay][ax] = aval

\* A Living cell has been written over a Blocked one, and read back.
C21_Witness ==
    /\ op = "write"
    /\ given[ay][ax] = BLOCKED
    /\ aval = LIVING
    /\ got = LIVING

\* C22: whatever the board holds, read and its maybe-coordinate variants
\* return Dead (0) when x or y is outside 0..25: at 25, which 24 + 1 gives,
\* and at None, which decrementing 0 gives; the opposite edge is not read.
C22_OutOfRangeReadsDead ==
    op \in Reads /\ ~(ax \in 0 .. 24 /\ ay \in 0 .. 24) => got = DEAD

\* read_maybe_x has returned Dead for a missing x in a row whose cells at
\* both edges are not Dead.
C22_Witness ==
    /\ op = "read_maybe_x"
    /\ ax = None /\ ay = 24
    /\ dish[24][24] = LIVING
    /\ got = DEAD

\* Abandonment has just discarded flower_patches[i]; its incumbent was the
\* scout local_search() was entered with, since the cycle promoted none.
Discarded == pc = "shrinking" /\ i \in replaced

\* C25: when abandonment discards a neighbourhood, the global best
\* afterwards has a fitness not above the discarded incumbent's; it is
\* overwritten only by an incumbent strictly better than it, so on a tie
\* the earlier global best is kept.
C25_AbandonmentKeepsBest ==
    [][(pc = "abandonment" /\ i \in replaced' \ replaced) =>
         LET incumbent == flower_patches[i + 1].scout
         IN  /\ current_best'.fitness <= incumbent.fitness
             /\ current_best'.fitness <= current_best.fitness
             /\ current_best' # current_best =>
                    /\ current_best' = incumbent
                    /\ incumbent.fitness < current_best.fitness
             /\ incumbent.fitness >= current_best.fitness =>
                    current_best' = current_best]_vars

\* A neighbourhood has been discarded whose incumbent tied with the global
\* best, a different solution; the global best is as before.
C25_Witness ==
    /\ Discarded
    /\ entry_scout.fitness = current_best.fitness
    /\ entry_scout.solution # current_best.solution
    /\ last_assign # "abandonment"

Counter(patches, k) == patches[k + 1].stagnation_counter
CountersInBounds(patches) ==
    \A k \in Indices : Counter(patches, k) \in 0 .. STAGNATION_LIMIT

\* C30 as stated: in every reachable state of bees() every neighbourhood's
\* stagnation counter is between 0 and STAGNATION_LIMIT inclusive, and it
\* changes only in abandonment: by +1, or to 0 when the neighbourhood is
\* replaced.  The sort moves the neighbourhoods with their counters.
C30_ChangesOnlyInAbandonment ==
    [][/\ CountersInBounds(flower_patches)
       /\ CountersInBounds(flower_patches')
       /\ pc = "loop" => SamePatches(flower_patches, flower_patches')
       /\ pc # "loop" =>
            \A k \in Indices :
                Counter(flower_patches', k) # Counter(flower_patches, k) =>
                    /\ pc = "abandonment" /\ k = i
                    /\ \/ Counter(flower_patches', k)
                              = Counter(flower_patches, k) + 1
                       \/ /\ Counter(flower_patches', k) = 0
                          /\ k \in replaced']_vars

\* C30 as amended: the counters are between 0 and STAGNATION_LIMIT, and a
\* counter changes only in abandonment, by +1 or to 0 when the neighbourhood
\* is replaced, and in the global search of bees(), to 0, when the
\* neighbourhood at an index >= BEST_SITES is replaced by a fresh one.
C30_CounterChanges ==
    [][/\ CountersInBounds(flower_patches)
       /\ CountersInBounds(flower_patches')
       /\ pc = "loop" => SamePatches(flower_patches, flower_patches')
       /\ pc # "loop" =>
            \A k \in Indices :
                Counter(flower_patches', k) # Counter(flower_patches, k) =>
                    /\ k = i
                    /\ \/ /\ pc = "abandonment"
                          /\ Counter(flower_patches', k)
                                 = Counter(flower_patches, k) + 1
                       \/ /\ pc = "abandonment"
                          /\ Counter(flower_patches', k) = 0
                          /\ k \in replaced'
                       \/ /\ pc = "global_search"
                          /\ k >= BEST_SITES
                          /\ Counter(flower_patches', k) = 0
                          /\ k \in replaced']_vars

\* A neighbourhood whose counter abandonment raised to STAGNATION_LIMIT has
\* been sorted behind the best sites, where the global search replaces it.
C30_Witness ==
    /\ pc = "global_search"
    /\ i >= BEST_SITES
    /\ Counter(flower_patches, i) = STAGNATION_LIMIT
    /\ STAGNATION_LIMIT > 0
    /\ i \notin replaced

\* C31: stopping_condition() is checked exactly once before each cycle and
\* never inside one; when its first check returns true, bees() returns the
\* scout of lowest fitness among the N_SCOUTS neighbourhoods drawn at the
\* start, and explore() has not been called.
C31_StopCheckedOncePerCycle ==
    /\ [](/\ checks = cycles + B2U(pc = "done")
          /\ (pc = "done" /\ checks = 1) =>
                 /\ \A k \in Indices :
                        /\ flower_patches[k + 1] \in NewPatches
                        /\ current_best.fitness
                               <= flower_patches[k + 1].scout.fitness
                 /\ \E k \in Indices : current_best = flower_patches[k + 1].scout
                 /\ ~explore_called)
    /\ [][/\ pc # "loop" => checks' = checks
          /\ pc = "loop" => checks' = checks + 1
          /\ cycles' # cycles => pc = "loop" /\ cycles' = cycles + 1]_vars

\* The first check has stopped bees() on neighbourhoods of different
\* fitness, and the one returned is the lowest.
C31_Witness ==
    /\ pc = "done"
    /\ checks = 1
    /\ ~explore_called
    /\ current_best.fitness < flower_patches[N_SCOUTS].scout.fitness

Writers == Setters \cup {"write"}
TopDigitsZero(b) == \A y \in Rows, d \in 25 .. 31 : b[y][d] = 0

\* C32: write(x, y, s) and set_dead, set_living and set_blocked at
\* coordinates of the grid change only the cell (x, y): every other cell,
\* the Core at (12, 12) included, reads as before, and bits 50..63 of every
\* row stay 0.
C32_OnlyTargetChanges ==
    /\ ppc = "set" => TopDigitsZero(dish)
    /\ op \in Writers =>
           /\ \A y \in Rows, d \in Digits :
                  <<d, y>> # <<ax, ay>> => dish[y][d] = given[y][d]
           /\ read(dish, Centre, Centre) = DANDELIFEON
           /\ dish[ay][ax] = aval

\* The cell after the Core in its row has been set Blocked on
\* OPTIMAL_100_ROUND, whose Core and other cells are as before.
C32_Witness ==
    /\ op = "set_blocked"
    /\ <<ax, ay>> = <<13, 12>>
    /\ given = set_living(OPTIMAL_100_ROUND, 24, 24)
    /\ dish # given
    /\ dish[12][13] = BLOCKED
    /\ dish[12][12] = DANDELIFEON

(***************************************************************************)
(* Properties of MINIMUM_RADIUS.                                           *)
(***************************************************************************)
ConstDone == pc = "const" /\ ci = limit

\* C10 as stated: for any initial radius >= 10 and any stagnation limit the
\* value of MINIMUM_RADIUS is a stable positive floor: it is greater than 0
\* and one more shrink leaves it unchanged.
C10_StableFloor ==
    ConstDone => size > 0 /\ ConstShrink(size) = size

\* C10 as amended: the value is greater than 0 and not above the initial
\* radius; one more shrink leaves it unchanged exactly when it is below 10,
\* and then it is 8 or 9.
C10_PositiveFloor ==
    ConstDone =>
        /\ size > 0
        /\ size <= patch_size
        /\ ConstShrink(size) = size <=> size < 10
        /\ size < 10 => size \in {8, 9}

\* C10's case: the loop ran at least twice and ended on the stable floor.
C10_Witness ==
    ConstDone /\ limit >= 2 /\ patch_size >= 12 /\ ConstShrink(size) = size

====
